---- MODULE Spec2Model ----
(***************************************************************************)
(* Model of the Azure Cosmos DB (MongoDB vCore) memory store:              *)
(* MongoStoreApi, the adapter, working on one MongoDB database, and the    *)
(* operations AzureCosmosDBMemoryStore forwards to it.                     *)
(*                                                                         *)
(* Python strings are TLA+ strings, Python lists are sequences, a MongoDB  *)
(* document (a dict) is a function from field names to values, so that a   *)
(* missing field is a missing element of its DOMAIN.  Relevance scores     *)
(* and embedding components are small integers.                           *)
(***************************************************************************)
EXTENDS Integers, Sequences, FiniteSets, TLC

VARIABLES
  collection,   \* self.collection of the adapter: "None" or the name of the bound collection
  db,           \* the database: existing collection name |-> [docs, indexes]
  call,         \* the last operation invoked and its arguments
  ret,          \* its outcome: a returned value or a raised exception
  dbCalls,      \* the database calls the last operation issued, in order
  dbCandidates, \* what the last aggregate (vector search) call returned
  store,        \* the facade a caller holds: "None" or "AzureCosmosDBMemoryStore"
  cosmos_api,   \* the backend kind of the environment (AZCOSMOS_API)
  is_mongos,    \* mongoClient.is_mongos, a property of the deployment
  connected,    \* whether the database answers the calls of the client
  callers       \* concurrent callers of one facade: caller |-> its call in progress

vars == <<collection, db, call, ret, dbCalls, dbCandidates,
          store, cosmos_api, is_mongos, connected, callers>>

-----------------------------------------------------------------------------
(* Bounds of the model *)

MaxBatch == 2        \* longest list handed to a batch operation
MaxLimit == 2        \* largest limit of a nearest-matches search
MaxRelevance == 2    \* largest min_relevance_score; scores of stored records are 0 or 1
MaxCallers == 3      \* concurrent callers of one facade, one call each

(* Configuration and inputs *)

cosmos_container_name == "sk_container"
CollectionNames == {cosmos_container_name, "other"}
ApiKinds == {"mongo-vcore", "nosql"}
IndexName == "embedding_cosmosSearch"

Ids == {"k1", "k2"}
Embeddings == {<<1, 0>>, <<0, 1>>}
Texts == {"t"}
Descriptions == {"d"}
AdditionalMetadata == {"m"}
Timestamps == {"None", "ts"}     \* "None" is Python's None
Similarities == {"COS", "IP"}
NumLists == {1}
Dimensions == {2}

Min(a, b) == IF a < b THEN a ELSE b

-----------------------------------------------------------------------------
(* MemoryRecord *)

local_record(id, embedding, text, description, additional_metadata, timestamp) ==
  [id |-> id, embedding |-> embedding, text |-> text, description |-> description,
   additional_metadata |-> additional_metadata, timestamp |-> timestamp]

Records ==
  { local_record(i, e, t, d, m, ts) :
      i \in Ids, e \in Embeddings, t \in Texts, d \in Descriptions,
      m \in AdditionalMetadata, ts \in Timestamps }

\* lists of records of length 0..MaxBatch
RecordLists == UNION { [1..n -> Records] : n \in 0..MaxBatch }
KeyLists == UNION { [1..n -> Ids] : n \in 0..MaxBatch }

Range(s) == { s[i] : i \in DOMAIN s }

-----------------------------------------------------------------------------
(* Outcomes of an operation *)

Return(type, value) == [kind |-> "return", type |-> type, value |-> value]
Raise(exc) == [kind |-> "raise", type |-> exc, value |-> <<>>]
ReturnNone == Return("None", <<>>)

-----------------------------------------------------------------------------
(* Record -> document mapping *)

serialize_metadata(record) ==
  "{\"text\": \"" \o record.text
    \o "\", \"description\": \"" \o record.description
    \o "\", \"additional_metadata\": \"" \o record.additional_metadata \o "\"}"

cosmosRecord(record) ==
  LET base == ("_id" :> record.id) @@ ("embedding" :> record.embedding)
              @@ ("text" :> record.text) @@ ("description" :> record.description)
              @@ ("metadata" :> serialize_metadata(record))
  IN  IF record.timestamp # "None"
        THEN base @@ ("timestamp" :> record.timestamp)
        ELSE base

-----------------------------------------------------------------------------
(* The database (pymongo) as the adapter uses it *)

IdIndex == [name |-> "_id_", key |-> "_id"]

Docs(d, name) == IF name \in DOMAIN d THEN d[name].docs ELSE <<>>
Indexes(d, name) == IF name \in DOMAIN d THEN d[name].indexes ELSE <<>>

\* a write to a collection that does not exist creates it, with its _id index
WithCollection(d, name, docs, indexes) ==
  [n \in DOMAIN d \cup {name} |->
     IF n = name
       THEN [docs |-> docs,
             indexes |-> IF indexes = <<>> THEN <<IdIndex>> ELSE indexes]
       ELSE d[n]]

WithDocs(d, name, docs) == WithCollection(d, name, docs, Indexes(d, name))

HasId(docs, id) == \E i \in DOMAIN docs : docs[i]["_id"] = id

\* Collection.insert_many(documents), ordered: the documents are inserted
\* one after the other and the first duplicate _id stops the insertion
RECURSIVE insert_many(_, _)
insert_many(docs, documents) ==
  IF documents = <<>> THEN [docs |-> docs, ok |-> TRUE]
  ELSE IF HasId(docs, Head(documents)["_id"]) THEN [docs |-> docs, ok |-> FALSE]
  ELSE insert_many(Append(docs, Head(documents)), Tail(documents))

\* Collection.find(filter, projection): the matching documents, in natural
\* order; projection {"embedding": 0} leaves the embedding field out
Project(doc, withEmbedding) ==
  IF withEmbedding THEN doc
  ELSE [f \in DOMAIN doc \ {"embedding"} |-> doc[f]]

RECURSIVE find(_, _, _)
find(docs, keys, withEmbedding) ==
  IF docs = <<>> THEN <<>>
  ELSE IF Head(docs)["_id"] \in keys
    THEN <<Project(Head(docs), withEmbedding)>> \o find(Tail(docs), keys, withEmbedding)
    ELSE find(Tail(docs), keys, withEmbedding)

\* Collection.delete_many(filter) and delete_one(filter) on _id
RECURSIVE delete_many(_, _)
delete_many(docs, keys) ==
  IF docs = <<>> THEN <<>>
  ELSE IF Head(docs)["_id"] \in keys
    THEN delete_many(Tail(docs), keys)
    ELSE <<Head(docs)>> \o delete_many(Tail(docs), keys)

\* Collection.index_information().get(name): the index of that name, if any
HasIndex(indexes, name) == \E i \in DOMAIN indexes : indexes[i].name = name

\* Database.command("createIndexes", ...) with one index definition
createIndexes(indexes, indexDef) ==
  LET existing == IF indexes = <<>> THEN <<IdIndex>> ELSE indexes
  IN  IF \E i \in DOMAIN existing : existing[i] = indexDef
        THEN [indexes |-> existing, ok |-> TRUE]
      ELSE IF HasIndex(existing, indexDef.name)
        THEN [indexes |-> existing, ok |-> FALSE]
      ELSE [indexes |-> Append(existing, indexDef), ok |-> TRUE]

\* the score the vector index gives a stored embedding for a query vector
similarityScore(vector, embedding) ==
  LET RECURSIVE dot(_)
      dot(i) == IF i > Len(vector) THEN 0
                ELSE vector[i] * embedding[i] + dot(i + 1)
  IN  dot(1)

\* the result of one outcome of an operation
Out(d, r, calls) == [db |-> d, ret |-> r, dbCalls |-> calls]

-----------------------------------------------------------------------------
(* MongoStoreApi: the adapter's operations, as functions of the database d *)
(* and of self.collection (coll)                                           *)

\* the index definition ensure sends with createIndexes
indexDefs(num_lists, similarity, vector_dimensions) ==
  [name |-> IndexName, key |-> "embedding", kind |-> "vector-ivf",
   numLists |-> num_lists, similarity |-> similarity,
   dimensions |-> vector_dimensions]

\* a slip of ensure: the index is looked up under the name of its key
index_is_none_wrong_name(indexes) == ~HasIndex(indexes, "embedding")

\* indexes.get("embedding_cosmosSearch") is None
index_is_none(indexes) == ~HasIndex(indexes, IndexName)

ensure_indexes(d, num_lists, similarity, vector_dimensions) ==
  LET indexes == Indexes(d, cosmos_container_name)
  IN  IF index_is_none(indexes)
        THEN LET r == createIndexes(indexes,
                        indexDefs(num_lists, similarity, vector_dimensions))
             IN  IF r.ok
                   THEN Out(WithCollection(d, cosmos_container_name,
                                           Docs(d, cosmos_container_name), r.indexes),
                            ReturnNone, <<"index_information", "createIndexes">>)
                   ELSE Out(d, Raise("OperationFailure"),
                            <<"index_information", "createIndexes">>)
        ELSE Out(d, ReturnNone, <<"index_information">>)

\* ensure: the assertion on mongoClient.is_mongos, then the index
ensure_core(d, mongos, num_lists, similarity, vector_dimensions) ==
  IF ~mongos THEN Out(d, Raise("AssertionError"), <<>>)
  ELSE ensure_indexes(d, num_lists, similarity, vector_dimensions)

\* the loop of upsert_batch_core: one document and one id per record
cosmosRecords(records) == [i \in DOMAIN records |-> cosmosRecord(records[i])]

\* a slip of upsert_batch_core: the ids are collected in reverse order
doc_ids_reversed(records) ==
  [i \in DOMAIN records |-> cosmosRecord(records[Len(records) + 1 - i])["_id"]]

doc_ids(records) == [i \in DOMAIN records |-> cosmosRecord(records[i])["_id"]]

\* a slip of upsert_batch_core: a rejected batch returns the ids committed
upsert_batch_core_partial_ids(d, coll, records) ==
  IF coll = "None" THEN Out(d, Raise("AttributeError"), <<>>)
  ELSE IF records = <<>> THEN Out(d, Raise("TypeError"), <<"insert_many">>)
  ELSE LET r == insert_many(Docs(d, coll), cosmosRecords(records))
           d2 == IF r.docs = Docs(d, coll) THEN d ELSE WithDocs(d, coll, r.docs)
           n == Len(r.docs) - Len(Docs(d, coll))
       IN  Out(d2, Return("list", SubSeq(doc_ids(records), 1, n)),
               <<"insert_many">>)

upsert_batch_core(d, coll, records) ==
  IF coll = "None" THEN Out(d, Raise("AttributeError"), <<>>)
  ELSE IF records = <<>> THEN Out(d, Raise("TypeError"), <<"insert_many">>)
  ELSE LET r == insert_many(Docs(d, coll), cosmosRecords(records))
           d2 == IF r.docs = Docs(d, coll) THEN d ELSE WithDocs(d, coll, r.docs)
       IN  IF r.ok
             THEN Out(d2, Return("list", doc_ids(records)), <<"insert_many">>)
             ELSE Out(d2, Raise("BulkWriteError"), <<"insert_many">>)

\* a slip of upsert_core: on a duplicate id the stored document is patched
\* with the embedding of the new record by a second write
upsert_core_patch_on_duplicate(d, coll, record) ==
  LET result == upsert_batch_core(d, coll, <<record>>)
      docs == Docs(d, coll)
      patched == [i \in DOMAIN docs |->
                    IF docs[i]["_id"] = record.id
                      THEN [docs[i] EXCEPT !["embedding"] = record.embedding]
                      ELSE docs[i]]
  IN  IF result.ret = Raise("BulkWriteError") /\ HasId(docs, record.id)
        THEN Out(WithDocs(d, coll, patched), Return("str", record.id),
                 <<"insert_many", "update_one">>)
      ELSE IF result.ret.kind = "raise" THEN result
      ELSE Out(result.db, Return("str", result.ret.value[1]), result.dbCalls)

upsert_core(d, coll, record) ==
  LET result == upsert_batch_core(d, coll, <<record>>)
  IN  IF result.ret.kind = "raise" THEN result
      ELSE Out(result.db, Return("str", result.ret.value[1]), result.dbCalls)

\* MemoryRecord.local_record(id=result["_id"], ...) of get_core and get_batch_core
to_memory_record(result, with_embedding) ==
  IF "timestamp" \notin DOMAIN result THEN Raise("KeyError")
  ELSE Return("MemoryRecord",
         local_record(result["_id"],
                      IF with_embedding THEN result["embedding"] ELSE <<>>,
                      result["text"], result["description"],
                      result["metadata"], result["timestamp"]))

get_core(d, coll, key, with_embedding) ==
  IF coll = "None" THEN Out(d, Raise("AttributeError"), <<>>)
  ELSE LET found == find(Docs(d, coll), {key}, with_embedding)
       IN  IF found = <<>>
             THEN Out(d, Raise("TypeError"), <<"find_one">>)   \* result is None
             ELSE Out(d, to_memory_record(found[1], with_embedding), <<"find_one">>)

\* the list comprehension of get_batch_core: the first failing document
\* raises, otherwise one record per document found
RECURSIVE to_memory_records(_, _, _)
to_memory_records(results, with_embeddings, acc) ==
  IF results = <<>> THEN Return("list", acc)
  ELSE LET r == to_memory_record(Head(results), with_embeddings)
       IN  IF r.kind = "raise" THEN r
           ELSE to_memory_records(Tail(results), with_embeddings, Append(acc, r.value))

\* a slip of get_batch_core: one find_one per key
get_batch_core_per_key(d, coll, keys, with_embeddings) ==
  IF coll = "None" THEN Out(d, Raise("AttributeError"), <<>>)
  ELSE Out(d, to_memory_records(find(Docs(d, coll), Range(keys), with_embeddings),
                                with_embeddings, <<>>),
           [i \in DOMAIN keys |-> "find_one"])

get_batch_core(d, coll, keys, with_embeddings) ==
  IF coll = "None" THEN Out(d, Raise("AttributeError"), <<>>)
  ELSE Out(d, to_memory_records(find(Docs(d, coll), Range(keys), with_embeddings),
                                with_embeddings, <<>>),
           <<"find">>)

\* a slip of remove_core: removing an id that is not stored is an error
remove_core_absent_raises(d, coll, key) ==
  IF coll = "None" THEN Out(d, Raise("AttributeError"), <<>>)
  ELSE IF ~HasId(Docs(d, coll), key) THEN Out(d, Raise("KeyError"), <<"delete_one">>)
  ELSE Out(WithDocs(d, coll, delete_many(Docs(d, coll), {key})),
           ReturnNone, <<"delete_one">>)

remove_core(d, coll, key) ==
  IF coll = "None" THEN Out(d, Raise("AttributeError"), <<>>)
  ELSE IF coll \notin DOMAIN d THEN Out(d, ReturnNone, <<"delete_one">>)
  ELSE Out(WithDocs(d, coll, delete_many(Docs(d, coll), {key})),
           ReturnNone, <<"delete_one">>)

\* a slip of remove_batch_core: only the first key is removed
remove_batch_core_first_only(d, coll, keys) ==
  IF coll = "None" THEN Out(d, Raise("AttributeError"), <<>>)
  ELSE IF coll \notin DOMAIN d THEN Out(d, ReturnNone, <<"delete_many">>)
  ELSE Out(WithDocs(d, coll, delete_many(Docs(d, coll),
                                         IF keys = <<>> THEN {} ELSE {keys[1]})),
           ReturnNone, <<"delete_many">>)

remove_batch_core(d, coll, keys) ==
  IF coll = "None" THEN Out(d, Raise("AttributeError"), <<>>)
  ELSE IF coll \notin DOMAIN d THEN Out(d, ReturnNone, <<"delete_many">>)
  ELSE Out(WithDocs(d, coll, delete_many(Docs(d, coll), Range(keys))),
           ReturnNone, <<"delete_many">>)

\* one element of the aggregate cursor: $project of similarityScore and document
aggResult(doc, vector) ==
  ("_id" :> doc["_id"])
    @@ ("similarityScore" :> similarityScore(vector, doc["embedding"]))
    @@ ("document" :> doc)

\* Collection.aggregate(pipeline) with $search cosmosSearch {vector, k}: the k
\* best stored documents, best first; documents of equal score in any order
Rankings(docs, vector, k) ==
  LET n == Min(k, Len(docs))
      score(j) == similarityScore(vector, docs[j]["embedding"])
  IN  { [i \in 1..n |-> aggResult(docs[s[i]], vector)] :
          s \in { t \in [1..n -> DOMAIN docs] :
                    /\ \A i, j \in 1..n : i # j => t[i] # t[j]
                    /\ \A i, j \in 1..n : i < j => score(t[i]) >= score(t[j])
                    /\ \A j \in DOMAIN docs :
                         (\A i \in 1..n : t[i] # j) =>
                            \A i \in 1..n : score(j) <= score(t[i]) } }

\* MemoryRecord.local_record(id=aggResult["_id"], ...) of get_nearest_matches_core
to_memory_record_agg(a, with_embeddings) ==
  IF "timestamp" \notin DOMAIN a["document"] THEN Raise("KeyError")
  ELSE Return("MemoryRecord",
         local_record(a["_id"],
                      IF with_embeddings THEN a["document"]["embedding"] ELSE <<>>,
                      a["document"]["text"], a["document"]["description"],
                      a["document"]["metadata"], a["document"]["timestamp"]))

\* a slip of get_nearest_matches_core: a kept candidate is put in front
append_result_in_front(acc, pair) == <<pair>> \o acc

\* nearest_results.append((result, aggResult["similarityScore"]))
append_result(acc, pair) == Append(acc, pair)

\* the loop of get_nearest_matches_core over the aggregate cursor
RECURSIVE nearest_results(_, _, _, _)
nearest_results(aggResults, min_relevance_score, with_embeddings, acc) ==
  IF aggResults = <<>> THEN Return("list", acc)
  ELSE LET a == Head(aggResults)
           result == to_memory_record_agg(a, with_embeddings)
       IN  IF result.kind = "raise" THEN result
           ELSE IF a["similarityScore"] < min_relevance_score
             THEN nearest_results(Tail(aggResults), min_relevance_score,
                                  with_embeddings, acc)
             ELSE nearest_results(Tail(aggResults), min_relevance_score,
                                  with_embeddings,
                                  append_result(acc, <<result.value,
                                                       a["similarityScore"]>>))

\* aggResults is what the aggregate call returns for this search
get_nearest_matches_core(d, coll, aggResults, min_relevance_score, with_embeddings) ==
  IF coll = "None" THEN Out(d, Raise("AttributeError"), <<>>)
  ELSE IF ~HasIndex(Indexes(d, coll), IndexName)
    THEN Out(d, Raise("OperationFailure"), <<"aggregate">>)
  ELSE Out(d, nearest_results(aggResults, min_relevance_score, with_embeddings, <<>>),
           <<"aggregate">>)

\* the limit get_nearest_match_core passes to get_nearest_matches_core
NearestMatchLimit == 1

get_nearest_match_core(d, coll, aggResults, min_relevance_score, with_embedding) ==
  LET r == get_nearest_matches_core(d, coll, aggResults, min_relevance_score,
                                    with_embedding)
  IN  IF r.ret.kind = "raise" THEN r
      ELSE IF Len(r.ret.value) > 0
        THEN Out(r.db, Return("tuple", r.ret.value[1]), r.dbCalls)
        ELSE Out(r.db, ReturnNone, r.dbCalls)

get_collections_core(d) ==
  Out(d, Return("list", SelectSeq(<<cosmos_container_name, "other">>,
                                  LAMBDA n : n \in DOMAIN d)),
      <<"list_collection_names">>)

delete_collection_core(d, coll) ==
  IF coll = "None" THEN Out(d, Raise("AttributeError"), <<>>)
  ELSE Out([n \in DOMAIN d \ {coll} |-> d[n]], ReturnNone, <<"drop">>)

does_collection_exist_core(d) ==
  Out(d, Return("bool", cosmos_container_name \in DOMAIN d),
      <<"list_collection_names">>)

-----------------------------------------------------------------------------
(* The state machine: one action per operation of the adapter, invoked by *)
(* a caller that awaits each outcome before its next call                 *)

Idle == [name |-> "idle"]

\* a MongoStoreApi constructed on a mongos deployment, used without a facade
Init ==
  /\ collection = "None"
  /\ db = [n \in {} |-> <<>>]
  /\ call = Idle
  /\ ret = ReturnNone
  /\ dbCalls = <<>>
  /\ dbCandidates = <<>>
  /\ store = "None"
  /\ cosmos_api = "mongo-vcore"
  /\ is_mongos = TRUE
  /\ connected = TRUE
  /\ callers = <<>>

\* no operation has a try/except around its database calls: when the
\* database does not answer, the first call the operation issues raises and
\* the exception leaves the operation; d is the database before the call.
\* (insert_many rejects an empty list before it contacts the database.)
Attempt(d, up, out) ==
  IF up \/ out.dbCalls = <<>> THEN out
  ELSE IF out.dbCalls = <<"insert_many">> /\ out.ret = Raise("TypeError") THEN out
  ELSE Out(d, Raise("ConnectionFailure"), <<out.dbCalls[1]>>)

\* the caller invokes operation c, which ends with outcome out, the search
\* having seen cands
Apply(c, out, cands) ==
  /\ call = Idle
  /\ call' = c
  /\ db' = Attempt(db, connected, out).db
  /\ ret' = Attempt(db, connected, out).ret
  /\ dbCalls' = Attempt(db, connected, out).dbCalls
  /\ dbCandidates' = IF connected THEN cands ELSE <<>>
  /\ UNCHANGED <<cosmos_api, is_mongos, connected, callers>>

\* ensure binds self.collection once the assertion on mongoClient.is_mongos
\* has passed, before it looks at the indexes
ensure ==
  \E num_lists \in NumLists, similarity \in Similarities,
     vector_dimensions \in Dimensions :
    /\ collection' = IF is_mongos THEN cosmos_container_name ELSE collection
    /\ Apply([name |-> "ensure", num_lists |-> num_lists,
              similarity |-> similarity, vector_dimensions |-> vector_dimensions],
             ensure_core(db, is_mongos, num_lists, similarity, vector_dimensions),
             <<>>)
    /\ UNCHANGED store

create_collection ==
  \E collection_name \in CollectionNames :
    /\ Apply([name |-> "create_collection_core", collection_name |-> collection_name],
             Out(db, ReturnNone, <<>>), <<>>)
    /\ UNCHANGED <<collection, store>>

get_collections ==
  /\ Apply([name |-> "get_collections_core"], get_collections_core(db), <<>>)
  /\ UNCHANGED <<collection, store>>

delete_collection ==
  \E collection_name \in CollectionNames :
    /\ Apply([name |-> "delete_collection_core", collection_name |-> collection_name],
             delete_collection_core(db, collection), <<>>)
    /\ UNCHANGED <<collection, store>>

does_collection_exist ==
  \E collection_name \in CollectionNames :
    /\ Apply([name |-> "does_collection_exist_core",
              collection_name |-> collection_name],
             does_collection_exist_core(db), <<>>)
    /\ UNCHANGED <<collection, store>>

upsert ==
  \E collection_name \in CollectionNames, record \in Records :
    /\ Apply([name |-> "upsert_core", collection_name |-> collection_name,
              record |-> record],
             upsert_core(db, collection, record), <<>>)
    /\ UNCHANGED <<collection, store>>

upsert_batch ==
  \E collection_name \in CollectionNames, records \in RecordLists :
    /\ Apply([name |-> "upsert_batch_core", collection_name |-> collection_name,
              records |-> records],
             upsert_batch_core(db, collection, records), <<>>)
    /\ UNCHANGED <<collection, store>>

get ==
  \E collection_name \in CollectionNames, key \in Ids, with_embedding \in BOOLEAN :
    /\ Apply([name |-> "get_core", collection_name |-> collection_name,
              key |-> key, with_embedding |-> with_embedding],
             get_core(db, collection, key, with_embedding), <<>>)
    /\ UNCHANGED <<collection, store>>

get_batch ==
  \E collection_name \in CollectionNames, keys \in KeyLists,
     with_embeddings \in BOOLEAN :
    /\ Apply([name |-> "get_batch_core", collection_name |-> collection_name,
              keys |-> keys, with_embeddings |-> with_embeddings],
             get_batch_core(db, collection, keys, with_embeddings), <<>>)
    /\ UNCHANGED <<collection, store>>

remove ==
  \E collection_name \in CollectionNames, key \in Ids :
    /\ Apply([name |-> "remove_core", collection_name |-> collection_name,
              key |-> key],
             remove_core(db, collection, key), <<>>)
    /\ UNCHANGED <<collection, store>>

remove_batch ==
  \E collection_name \in CollectionNames, keys \in KeyLists :
    /\ Apply([name |-> "remove_batch_core", collection_name |-> collection_name,
              keys |-> keys],
             remove_batch_core(db, collection, keys), <<>>)
    /\ UNCHANGED <<collection, store>>

\* the candidates the search sees: none when the aggregate call is not made
\* or fails, otherwise one of the rankings the index can return
Candidates(vector, k) ==
  IF collection = "None" \/ ~HasIndex(Indexes(db, collection), IndexName)
    THEN {<<>>}
    ELSE Rankings(Docs(db, collection), vector, k)

get_nearest_matches ==
  \E collection_name \in CollectionNames, embedding \in Embeddings,
     limit \in 1..MaxLimit, min_relevance_score \in 0..MaxRelevance,
     with_embeddings \in BOOLEAN :
    \E aggResults \in Candidates(embedding, limit) :
      /\ Apply([name |-> "get_nearest_matches_core",
                collection_name |-> collection_name, embedding |-> embedding,
                limit |-> limit, min_relevance_score |-> min_relevance_score,
                with_embeddings |-> with_embeddings],
               get_nearest_matches_core(db, collection, aggResults,
                                        min_relevance_score, with_embeddings),
               aggResults)
      /\ UNCHANGED <<collection, store>>

get_nearest_match ==
  \E collection_name \in CollectionNames, embedding \in Embeddings,
     min_relevance_score \in 0..MaxRelevance, with_embedding \in BOOLEAN :
    \E aggResults \in Candidates(embedding, NearestMatchLimit) :
      /\ Apply([name |-> "get_nearest_match_core",
                collection_name |-> collection_name, embedding |-> embedding,
                min_relevance_score |-> min_relevance_score,
                with_embedding |-> with_embedding],
               get_nearest_match_core(db, collection, aggResults,
                                      min_relevance_score, with_embedding),
               aggResults)
      /\ UNCHANGED <<collection, store>>

\* the awaiting caller receives the outcome
await_returns ==
  /\ call # Idle
  /\ call' = Idle
  /\ ret' = ReturnNone
  /\ dbCalls' = <<>>
  /\ dbCandidates' = <<>>
  /\ UNCHANGED <<collection, db, store, cosmos_api, is_mongos, connected, callers>>

Next ==
  \/ await_returns
  \/ ensure
  \/ create_collection
  \/ get_collections
  \/ delete_collection
  \/ does_collection_exist
  \/ upsert
  \/ upsert_batch
  \/ get
  \/ get_batch
  \/ remove
  \/ remove_batch
  \/ get_nearest_matches
  \/ get_nearest_match

Spec == Init /\ [][Next]_vars

-----------------------------------------------------------------------------
(* AzureCosmosDBMemoryStore: the facade a caller obtains from create, and   *)
(* its methods, each forwarding to the adapter                             *)

Facade == "AzureCosmosDBMemoryStore"

\* a slip of create: every backend kind is served by the Mongo adapter
create_core_any_api(d, api, mongos, num_lists, similarity, vector_dimensions) ==
  LET e == ensure_core(d, mongos, num_lists, similarity, vector_dimensions)
  IN  IF e.ret.kind = "raise"
        THEN Out(e.db, e.ret, <<"MongoClient">> \o e.dbCalls)
        ELSE Out(e.db, Return(Facade, <<>>), <<"MongoClient">> \o e.dbCalls)

\* create: the adapter of the configured kind, ensure, then the facade
create_core(d, api, mongos, num_lists, similarity, vector_dimensions) ==
  IF api # "mongo-vcore" THEN Out(d, Raise("NotImplementedError"), <<>>)
  ELSE LET e == ensure_core(d, mongos, num_lists, similarity, vector_dimensions)
       IN  IF e.ret.kind = "raise"
             THEN Out(e.db, e.ret, <<"MongoClient">> \o e.dbCalls)
             ELSE Out(e.db, Return(Facade, <<>>), <<"MongoClient">> \o e.dbCalls)

\* the collection name the facade hands to the adapter: str()
str == ""

\* the call of the adapter a facade method makes
Forward(core_name) == <<[name |-> core_name, collection_name |-> str]>>

\* the environment a process can find itself in; no adapter, no facade yet
InitFacade ==
  /\ collection = "None"
  /\ db = [n \in {} |-> <<>>]
  /\ call = Idle
  /\ ret = ReturnNone
  /\ dbCalls = <<>>
  /\ dbCandidates = <<>>
  /\ store = "None"
  /\ cosmos_api \in ApiKinds
  /\ is_mongos \in BOOLEAN
  /\ connected = TRUE
  /\ callers = <<>>

create ==
  \E num_lists \in NumLists, similarity \in Similarities,
     vector_dimensions \in Dimensions :
    LET out == create_core(db, cosmos_api, is_mongos, num_lists, similarity,
                           vector_dimensions)
    IN  /\ Apply([name |-> "create", num_lists |-> num_lists,
                  similarity |-> similarity,
                  vector_dimensions |-> vector_dimensions],
                 out, <<>>)
        /\ collection' = IF out.ret.kind = "return"
                           THEN cosmos_container_name ELSE collection
        /\ store' = IF out.ret.kind = "return" THEN Facade ELSE store

create_collection_async ==
  \E collection_name \in CollectionNames :
    /\ store = Facade
    /\ Apply([name |-> "create_collection_async",
              collection_name |-> collection_name, forwarded |-> <<>>],
             Out(db, ReturnNone, <<>>), <<>>)
    /\ UNCHANGED <<collection, store>>

get_collections_async ==
  /\ store = Facade
  /\ Apply([name |-> "get_collections_async",
            forwarded |-> <<[name |-> "get_collections_core"]>>],
           get_collections_core(db), <<>>)
  /\ UNCHANGED <<collection, store>>

delete_collection_async ==
  \E collection_name \in CollectionNames :
    /\ store = Facade
    /\ Apply([name |-> "delete_collection_async",
              collection_name |-> collection_name,
              forwarded |-> Forward("delete_collection_core")],
             delete_collection_core(db, collection), <<>>)
    /\ UNCHANGED <<collection, store>>

does_collection_exist_async ==
  \E collection_name \in CollectionNames :
    /\ store = Facade
    /\ Apply([name |-> "does_collection_exist_async",
              collection_name |-> collection_name,
              forwarded |-> Forward("does_collection_exist_core")],
             does_collection_exist_core(db), <<>>)
    /\ UNCHANGED <<collection, store>>

upsert_async ==
  \E collection_name \in CollectionNames, record \in Records :
    /\ store = Facade
    /\ Apply([name |-> "upsert_async", collection_name |-> collection_name,
              forwarded |-> Forward("upsert_core"), record |-> record],
             upsert_core(db, collection, record), <<>>)
    /\ UNCHANGED <<collection, store>>

upsert_batch_async ==
  \E collection_name \in CollectionNames, records \in RecordLists :
    /\ store = Facade
    /\ Apply([name |-> "upsert_batch_async", collection_name |-> collection_name,
              forwarded |-> Forward("upsert_batch_core"), records |-> records],
             upsert_batch_core(db, collection, records), <<>>)
    /\ UNCHANGED <<collection, store>>

get_async ==
  \E collection_name \in CollectionNames, key \in Ids, with_embedding \in BOOLEAN :
    /\ store = Facade
    /\ Apply([name |-> "get_async", collection_name |-> collection_name,
              forwarded |-> Forward("get_core"), key |-> key,
              with_embedding |-> with_embedding],
             get_core(db, collection, key, with_embedding), <<>>)
    /\ UNCHANGED <<collection, store>>

get_batch_async ==
  \E collection_name \in CollectionNames, keys \in KeyLists,
     with_embeddings \in BOOLEAN :
    /\ store = Facade
    /\ Apply([name |-> "get_batch_async", collection_name |-> collection_name,
              forwarded |-> Forward("get_batch_core"), keys |-> keys,
              with_embeddings |-> with_embeddings],
             get_batch_core(db, collection, keys, with_embeddings), <<>>)
    /\ UNCHANGED <<collection, store>>

remove_async ==
  \E collection_name \in CollectionNames, key \in Ids :
    /\ store = Facade
    /\ Apply([name |-> "remove_async", collection_name |-> collection_name,
              forwarded |-> Forward("remove_core"), key |-> key],
             remove_core(db, collection, key), <<>>)
    /\ UNCHANGED <<collection, store>>

remove_batch_async ==
  \E collection_name \in CollectionNames, keys \in KeyLists :
    /\ store = Facade
    /\ Apply([name |-> "remove_batch_async", collection_name |-> collection_name,
              forwarded |-> Forward("remove_batch_core"), keys |-> keys],
             remove_batch_core(db, collection, keys), <<>>)
    /\ UNCHANGED <<collection, store>>

get_nearest_matches_async ==
  \E collection_name \in CollectionNames, embedding \in Embeddings,
     limit \in 1..MaxLimit, min_relevance_score \in 0..MaxRelevance,
     with_embeddings \in BOOLEAN :
    \E aggResults \in Candidates(embedding, limit) :
      /\ store = Facade
      /\ Apply([name |-> "get_nearest_matches_async",
                collection_name |-> collection_name,
                forwarded |-> Forward("get_nearest_matches_core"),
                embedding |-> embedding, limit |-> limit,
                min_relevance_score |-> min_relevance_score,
                with_embeddings |-> with_embeddings],
               get_nearest_matches_core(db, collection, aggResults,
                                        min_relevance_score, with_embeddings),
               aggResults)
      /\ UNCHANGED <<collection, store>>

get_nearest_match_async ==
  \E collection_name \in CollectionNames, embedding \in Embeddings,
     min_relevance_score \in 0..MaxRelevance, with_embedding \in BOOLEAN :
    \E aggResults \in Candidates(embedding, NearestMatchLimit) :
      /\ store = Facade
      /\ Apply([name |-> "get_nearest_match_async",
                collection_name |-> collection_name,
                forwarded |-> Forward("get_nearest_match_core"),
                embedding |-> embedding,
                min_relevance_score |-> min_relevance_score,
                with_embedding |-> with_embedding],
               get_nearest_match_core(db, collection, aggResults,
                                      min_relevance_score, with_embedding),
               aggResults)
      /\ UNCHANGED <<collection, store>>

NextFacade ==
  \/ await_returns
  \/ create
  \/ create_collection_async
  \/ get_collections_async
  \/ delete_collection_async
  \/ does_collection_exist_async
  \/ upsert_async
  \/ upsert_batch_async
  \/ get_async
  \/ get_batch_async
  \/ remove_async
  \/ remove_batch_async
  \/ get_nearest_matches_async
  \/ get_nearest_match_async

SpecFacade == InitFacade /\ [][NextFacade]_vars

-----------------------------------------------------------------------------
(* Several callers of one facade: upsert_async and remove_async calls on   *)
(* one id, each a call of the facade followed by the one write the         *)
(* database applies, the writes of different callers in any order          *)

Callers == 1..MaxCallers

\* the id the callers race on, and the records they upsert under it
RaceId == "k1"
RaceRecords == { r \in Records : r.id = RaceId }

IdleCaller == [pc |-> "idle"]

\* the callers whose call is with the database
InFlight == { q \in Callers : callers[q].pc = "called" }

\* a facade obtained from create on an empty database, and no call made yet
InitConcurrent ==
  /\ \E num_lists \in NumLists, similarity \in Similarities,
        vector_dimensions \in Dimensions :
       db = create_core([n \in {} |-> <<>>], "mongo-vcore", TRUE, num_lists,
                        similarity, vector_dimensions).db
  /\ collection = cosmos_container_name
  /\ store = Facade
  /\ cosmos_api = "mongo-vcore"
  /\ is_mongos = TRUE
  /\ connected = TRUE
  /\ call = Idle
  /\ ret = ReturnNone
  /\ dbCalls = <<>>
  /\ dbCandidates = <<>>
  /\ callers = [p \in Callers |-> IdleCaller]

\* caller p calls upsert_async, which forwards to upsert_core; the documents
\* are built and handed to insert_many; overlapped tells whether the call
\* of another caller was in progress at that moment
upsert_async_called(p) ==
  \E record \in RaceRecords :
    /\ callers[p].pc = "idle"
    /\ callers' = [callers EXCEPT ![p] =
         [pc |-> "called", name |-> "upsert_async", record |-> record,
          forwarded |-> Forward("upsert_core"), overlapped |-> InFlight # {}]]
    /\ UNCHANGED <<collection, db, call, ret, dbCalls, dbCandidates, store,
                   cosmos_api, is_mongos, connected>>

\* caller p calls remove_async, which forwards to remove_core
remove_async_called(p) ==
  /\ callers[p].pc = "idle"
  /\ callers' = [callers EXCEPT ![p] =
       [pc |-> "called", name |-> "remove_async", key |-> RaceId,
        forwarded |-> Forward("remove_core"), overlapped |-> InFlight # {}]]
  /\ UNCHANGED <<collection, db, call, ret, dbCalls, dbCandidates, store,
                 cosmos_api, is_mongos, connected>>

\* the database applies the insert_many of caller p's upsert_async, and the
\* call ends with the outcome of upsert_core on the database as it is then
upsert_async_returns(p) ==
  LET c == callers[p]
      out == upsert_core(db, collection, c.record)
  IN  /\ c.pc = "called"
      /\ c.name = "upsert_async"
      /\ db' = out.db
      /\ callers' = [callers EXCEPT ![p] =
           [pc |-> "returned", name |-> c.name, record |-> c.record,
            forwarded |-> c.forwarded, overlapped |-> c.overlapped,
            ret |-> out.ret, dbCalls |-> out.dbCalls]]
      /\ UNCHANGED <<collection, call, ret, dbCalls, dbCandidates, store,
                     cosmos_api, is_mongos, connected>>

\* the database applies the delete_one of caller p's remove_async
remove_async_returns(p) ==
  LET c == callers[p]
      out == remove_core(db, collection, c.key)
  IN  /\ c.pc = "called"
      /\ c.name = "remove_async"
      /\ db' = out.db
      /\ callers' = [callers EXCEPT ![p] =
           [pc |-> "returned", name |-> c.name, key |-> c.key,
            forwarded |-> c.forwarded, overlapped |-> c.overlapped,
            ret |-> out.ret, dbCalls |-> out.dbCalls]]
      /\ UNCHANGED <<collection, call, ret, dbCalls, dbCandidates, store,
                     cosmos_api, is_mongos, connected>>

NextConcurrent ==
  \E p \in Callers :
    \/ upsert_async_called(p)
    \/ remove_async_called(p)
    \/ upsert_async_returns(p)
    \/ remove_async_returns(p)

SpecConcurrent == InitConcurrent /\ [][NextConcurrent]_vars

-----------------------------------------------------------------------------
(* A facade whose database may have stopped answering since create: the    *)
(* record, batch and search operations on a connection that is up or down  *)

\* the databases create leaves behind
Created ==
  { create_core([n \in {} |-> <<>>], "mongo-vcore", TRUE, num_lists,
                similarity, vector_dimensions).db :
      num_lists \in NumLists, similarity \in Similarities,
      vector_dimensions \in Dimensions }

\* a facade obtained from create, with nothing or one record upserted since,
\* and the connection to the database up or lost
InitOutage ==
  /\ db \in Created \cup
            { upsert_core(d, cosmos_container_name, record).db :
                d \in Created, record \in Records }
  /\ collection = cosmos_container_name
  /\ store = Facade
  /\ cosmos_api = "mongo-vcore"
  /\ is_mongos = TRUE
  /\ connected \in BOOLEAN
  /\ call = Idle
  /\ ret = ReturnNone
  /\ dbCalls = <<>>
  /\ dbCandidates = <<>>
  /\ callers = <<>>

NextOutage ==
  \/ await_returns
  \/ upsert_async
  \/ upsert_batch_async
  \/ get_async
  \/ get_batch_async
  \/ remove_async
  \/ remove_batch_async
  \/ get_nearest_matches_async
  \/ get_nearest_match_async

SpecOutage == InitOutage /\ [][NextOutage]_vars

-----------------------------------------------------------------------------
(* Properties *)

Bound == collection # "None"
StoredDocs == Docs(db, cosmos_container_name)
StoredIds == { StoredDocs[i]["_id"] : i \in DOMAIN StoredDocs }
HasVectorIndex == HasIndex(Indexes(db, cosmos_container_name), IndexName)
CountId(docs, id) == Cardinality({ i \in DOMAIN docs : docs[i]["_id"] = id })
CountIndex(indexes, name) ==
  Cardinality({ i \in DOMAIN indexes : indexes[i].name = name })

\* the candidates of the last search whose score is not below the threshold,
\* in the order the database returned them
Kept(min_relevance_score) ==
  SelectSeq(dbCandidates, LAMBDA a : a["similarityScore"] >= min_relevance_score)

\* C1: a record upserted under a fresh id and read back with its embedding
\* equals the record supplied in id, text, description, additional_metadata
\* and embedding, whatever its timestamp.  (An upsert that returns was made
\* on a store without the id.)
C1_RoundTrip ==
  (call.name = "upsert_core" /\ ret.kind = "return") =>
    LET r == call.record
        g == get_core(db, collection, r.id, TRUE).ret
    IN  /\ g.kind = "return"
        /\ g.value.id = r.id
        /\ g.value.text = r.text
        /\ g.value.description = r.description
        /\ g.value.additional_metadata = r.additional_metadata
        /\ g.value.embedding = r.embedding

\* C2: get_core without embedding on a stored id returns a record whose
\* embedding is empty, and so is the embedding of every record returned by
\* get_batch_core and get_nearest_matches_core without embeddings.
C2_EmptyEmbedding ==
  /\ (call.name = "get_core" /\ ~call.with_embedding /\ Bound
        /\ call.key \in StoredIds) =>
       (ret.kind = "return" /\ ret.value.embedding = <<>>)
  /\ (call.name = "get_batch_core" /\ ~call.with_embeddings
        /\ ret.kind = "return") =>
       \A i \in DOMAIN ret.value : ret.value[i].embedding = <<>>
  /\ (call.name = "get_nearest_matches_core" /\ ~call.with_embeddings
        /\ ret.kind = "return") =>
       \A i \in DOMAIN ret.value : ret.value[i][1].embedding = <<>>

\* C3: get_core for an id without a document fails with NotFound and leaves
\* the database unchanged.
C3_NotFound ==
  [][ (call'.name = "get_core" /\ Bound
         /\ ~HasId(Docs(db, collection), call'.key)) =>
        (ret' = Raise("NotFound") /\ db' = db) ]_vars

\* C4: an upsert under an id that is stored succeeds and leaves exactly one
\* document with that id, holding the new record.
C4_Overwrite ==
  [][ (call'.name = "upsert_core" /\ Bound
         /\ HasId(Docs(db, collection), call'.record.id)) =>
        LET r == call'.record
            docs == Docs(db', collection)
        IN  /\ ret' = Return("str", r.id)
            /\ CountId(docs, r.id) = 1
            /\ \A i \in DOMAIN docs :
                 docs[i]["_id"] = r.id =>
                   /\ docs[i]["embedding"] = r.embedding
                   /\ docs[i]["text"] = r.text
                   /\ docs[i]["description"] = r.description ]_vars

\* C5: an upsert_batch_core that succeeds returns one id per record, the
\* i-th the id of the i-th record; upsert_core returns the record's id.
C5_IdsInOrder ==
  /\ (call.name = "upsert_batch_core" /\ ret.kind = "return") =>
       /\ Len(call.records) >= 1
       /\ Len(ret.value) = Len(call.records)
       /\ \A i \in 1..Len(call.records) : ret.value[i] = call.records[i].id
  /\ (call.name = "upsert_core" /\ ret.kind = "return") =>
       ret.value = call.record.id

\* C5's case: a batch of two records with different ids was stored
C5_Witness ==
  /\ call.name = "upsert_batch_core"
  /\ ret.kind = "return"
  /\ Len(call.records) = 2
  /\ call.records[1].id # call.records[2].id

\* C6: get_batch_core returns exactly the stored records whose id is among
\* the keys, one per id, and does not fail whichever keys are missing.
C6_BatchSubset ==
  (call.name = "get_batch_core" /\ Bound) =>
    LET wanted == Range(call.keys) \cap StoredIds
    IN  /\ ret.kind = "return"
        /\ { ret.value[i].id : i \in DOMAIN ret.value } = wanted
        /\ Len(ret.value) = Cardinality(wanted)

\* C7: get_nearest_matches_core returns at most limit results, all of score
\* at least min_relevance_score: the candidates of the database that are not
\* below the threshold, whatever candidates are below it.
C7_LimitAndThreshold ==
  (call.name = "get_nearest_matches_core" /\ Bound /\ HasVectorIndex) =>
    LET kept == Kept(call.min_relevance_score)
    IN  /\ Len(dbCandidates) <= call.limit
        /\ ret.kind = "return"
        /\ Len(ret.value) <= call.limit
        /\ \A i \in DOMAIN ret.value : ret.value[i][2] >= call.min_relevance_score
        /\ Len(ret.value) = Len(kept)
        /\ { <<ret.value[i][1].id, ret.value[i][2]>> : i \in DOMAIN ret.value }
             = { <<kept[i]["_id"], kept[i]["similarityScore"]>> : i \in DOMAIN kept }

\* C8: the sequence get_nearest_matches_core returns is the candidates kept,
\* in the order of the database's ranking, hence non-increasing by score.
C8_RankingOrder ==
  (call.name = "get_nearest_matches_core" /\ ret.kind = "return") =>
    LET kept == Kept(call.min_relevance_score)
    IN  /\ Len(ret.value) = Len(kept)
        /\ \A i \in DOMAIN ret.value :
             /\ ret.value[i][1].id = kept[i]["_id"]
             /\ ret.value[i][2] = kept[i]["similarityScore"]
        /\ \A i, j \in DOMAIN ret.value :
             i < j => ret.value[i][2] >= ret.value[j][2]

\* C8's case: a search returned two results of different scores
C8_Witness ==
  /\ call.name = "get_nearest_matches_core"
  /\ ret.kind = "return"
  /\ Len(ret.value) = 2
  /\ ret.value[1][2] > ret.value[2][2]

\* C9: get_nearest_match_core returns the single result of
\* get_nearest_matches_core with limit 1, or None when that is empty: None
\* when the threshold is above every score, and a pair of positive score
\* when the threshold is 0 and a stored record has a positive score.
C9_NearestMatch ==
  (call.name = "get_nearest_match_core" /\ Bound /\ HasVectorIndex) =>
    LET kept == Kept(call.min_relevance_score)
        best == { i \in DOMAIN StoredDocs :
                    similarityScore(call.embedding, StoredDocs[i]["embedding"]) > 0 }
    IN  /\ Len(dbCandidates) <= 1
        /\ kept = <<>> => ret = ReturnNone
        /\ kept # <<>> =>
             /\ ret.kind = "return"
             /\ ret.type = "tuple"
             /\ ret.value[1].id = kept[1]["_id"]
             /\ ret.value[2] = kept[1]["similarityScore"]
        /\ call.min_relevance_score = MaxRelevance => ret = ReturnNone
        /\ (call.min_relevance_score = 0 /\ best # {}) =>
             (ret.kind = "return" /\ ret.type = "tuple" /\ ret.value[2] > 0)

\* C10: no call of ensure fails, after each the collection has exactly one
\* index named embedding_cosmosSearch, createIndexes is issued exactly by the
\* calls that find no such index, and a call that finds it changes nothing.
C10_EnsureIdempotent ==
  [][ call'.name = "ensure" =>
        LET found == HasIndex(Indexes(db, cosmos_container_name), IndexName)
        IN  /\ ret' = ReturnNone
            /\ CountIndex(Indexes(db', cosmos_container_name), IndexName) = 1
            /\ (\E i \in DOMAIN dbCalls' : dbCalls'[i] = "createIndexes") <=> ~found
            /\ found => db' = db ]_vars

\* C10's case: a call of ensure found the index of an earlier call, made
\* with other parameters, and issued no command
C10_Witness ==
  /\ call.name = "ensure"
  /\ dbCalls = <<"index_information">>
  /\ \E i \in DOMAIN Indexes(db, cosmos_container_name) :
       /\ Indexes(db, cosmos_container_name)[i].name = IndexName
       /\ Indexes(db, cosmos_container_name)[i].similarity # call.similarity

\* C11: in every state in which the caller holds a facade obtained from
\* create, ensure has completed (the adapter is bound) and the vector index
\* exists; a create that fails returns no facade.
C11_FacadeHasIndex ==
  /\ store = Facade => (Bound /\ HasVectorIndex)
  /\ (call.name = "create" /\ ret.kind = "raise") => store = "None"

\* the facade methods that receive a collection name
NamedFacadeMethods ==
  {"create_collection_async", "delete_collection_async",
   "does_collection_exist_async", "upsert_async", "upsert_batch_async",
   "get_async", "get_batch_async", "remove_async", "remove_batch_async",
   "get_nearest_matches_async", "get_nearest_match_async"}

\* C12: every facade method that receives a collection name invokes the
\* corresponding adapter operation exactly once, with the collection name
\* the caller gave.
C12_ForwardsName ==
  call.name \in NamedFacadeMethods =>
    /\ Len(call.forwarded) = 1
    /\ call.forwarded[1].collection_name = call.collection_name

\* the outcome of a CRUD call c on an adapter bound to the container
CrudOutcome(c) ==
  CASE c.name = "upsert_core" ->
         upsert_core(db, cosmos_container_name, c.record)
    [] c.name = "upsert_batch_core" ->
         upsert_batch_core(db, cosmos_container_name, c.records)
    [] c.name = "get_core" ->
         get_core(db, cosmos_container_name, c.key, c.with_embedding)
    [] c.name = "get_batch_core" ->
         get_batch_core(db, cosmos_container_name, c.keys, c.with_embeddings)
    [] c.name = "remove_core" ->
         remove_core(db, cosmos_container_name, c.key)
    [] c.name = "remove_batch_core" ->
         remove_batch_core(db, cosmos_container_name, c.keys)

CrudNames ==
  {"upsert_core", "upsert_batch_core", "get_core", "get_batch_core",
   "remove_core", "remove_batch_core"}

\* C13: on an adapter on which ensure was never called, each CRUD operation
\* has the outcome and the effect on the database it has on an adapter
\* bound to the container.
C13_CrudWithoutEnsure ==
  [][ (collection = "None" /\ call'.name \in CrudNames) =>
        /\ ret'.kind = CrudOutcome(call').ret.kind
        /\ ret'.type = CrudOutcome(call').ret.type
        /\ db' = CrudOutcome(call').db ]_vars

\* the ids a remove call names
RemovedIds(c) == IF c.name = "remove_async" THEN {c.key} ELSE Range(c.keys)

\* C14: remove_async and remove_batch_async succeed whether or not the ids
\* are stored; they remove exactly the stored records whose id is among
\* the ids given, keep every other record as it is and in place, and change
\* nothing at all when none of the ids is stored.
C14_RemoveExactly ==
  [][ call'.name \in {"remove_async", "remove_batch_async"} =>
        /\ ret' = ReturnNone
        /\ DOMAIN db' = DOMAIN db
        /\ \A n \in DOMAIN db :
             /\ db'[n].docs =
                  SelectSeq(db[n].docs,
                            LAMBDA doc : doc["_id"] \notin RemovedIds(call'))
             /\ db'[n].indexes = db[n].indexes
        /\ (RemovedIds(call') \cap StoredIds = {}) => db' = db ]_vars

\* a remove of one id has returned and the record of the other id is stored
C14_Witness ==
  /\ call.name = "remove_async"
  /\ call.key = "k1"
  /\ ret = ReturnNone
  /\ dbCalls = <<"delete_one">>
  /\ StoredIds = {"k2"}

\* C15: once remove_batch_async has returned, get_batch_async of the same
\* ids gives the empty list, with or without embeddings; once remove_async
\* has returned, no document has the id and get_batch_async of it is empty.
C15_RemovedThenAbsent ==
  /\ (call.name = "remove_batch_async" /\ ret.kind = "return") =>
       /\ \A i \in DOMAIN call.keys : ~HasId(StoredDocs, call.keys[i])
       /\ \A we \in BOOLEAN :
            get_batch_core(db, collection, call.keys, we).ret
              = Return("list", <<>>)
  /\ (call.name = "remove_async" /\ ret.kind = "return") =>
       /\ ~HasId(StoredDocs, call.key)
       /\ \A we \in BOOLEAN :
            get_batch_core(db, collection, <<call.key>>, we).ret
              = Return("list", <<>>)

\* a remove_batch_async of both ids has returned on an existing collection
C15_Witness ==
  /\ call.name = "remove_batch_async"
  /\ Range(call.keys) = Ids
  /\ ret = ReturnNone
  /\ dbCalls = <<"delete_many">>
  /\ cosmos_container_name \in DOMAIN db
  /\ StoredDocs = <<>>

\* C16: create under a backend kind other than "mongo-vcore" raises
\* NotImplementedError without a database call; no client is constructed,
\* ensure is not invoked, the database is unchanged and no facade results.
C16_UnsupportedBackend ==
  [][ (call'.name = "create" /\ cosmos_api # "mongo-vcore") =>
        /\ ret' = Raise("NotImplementedError")
        /\ dbCalls' = <<>>
        /\ db' = db
        /\ collection' = collection
        /\ store' = store /\ store' = "None" ]_vars

\* create has failed under the backend kind "nosql"
C16_Witness ==
  /\ call.name = "create"
  /\ cosmos_api = "nosql"
  /\ ret = Raise("NotImplementedError")
  /\ store = "None"
  /\ DOMAIN db = {}

\* C17: once create_collection_async(name) has returned, the list that
\* get_collections_async gives contains name.
C17_CreatedIsListed ==
  (call.name = "create_collection_async" /\ ret.kind = "return") =>
    call.collection_name \in Range(get_collections_core(db).ret.value)

\* C18: once delete_collection_async(name) has returned, the collection name
\* does not exist and has no record; does_collection_exist_async(name)
\* returns True exactly when the database has a collection of that name.
C18_DeleteAndExists ==
  /\ (call.name = "delete_collection_async" /\ ret.kind = "return") =>
       /\ call.collection_name \notin DOMAIN db
       /\ Docs(db, call.collection_name) = <<>>
       /\ does_collection_exist_core(db).ret = Return("bool", FALSE)
  /\ call.name = "does_collection_exist_async" =>
       ret = Return("bool", call.collection_name \in DOMAIN db)

\* the positions of a batch whose document the database rejects: the id is
\* stored already or occurs earlier in the batch
Rejected(docs, records) ==
  { i \in DOMAIN records :
      \/ HasId(docs, records[i].id)
      \/ \E k \in 1..(i - 1) : records[k].id = records[i].id }

FirstRejected(docs, records) ==
  CHOOSE i \in Rejected(docs, records) :
    \A k \in Rejected(docs, records) : i <= k

\* C19: an upsert_batch_async of which the database rejects a document
\* raises one error for the batch and returns no id list; insert_many is
\* called once and not again, and the documents the database committed
\* before the rejected one stay stored, after the documents stored before.
C19_BatchFailure ==
  [][ (call'.name = "upsert_batch_async"
         /\ Rejected(Docs(db, collection), call'.records) # {}) =>
        LET docs == Docs(db, collection)
            first == FirstRejected(docs, call'.records)
        IN  /\ ret' = Raise("BulkWriteError")
            /\ dbCalls' = <<"insert_many">>
            /\ Docs(db', collection) =
                 docs \o [i \in 1..(first - 1) |-> cosmosRecord(call'.records[i])] ]_vars

\* a batch that gives the same id twice has failed, and the document of its
\* first record is the last one stored
C19_Witness ==
  /\ call.name = "upsert_batch_async"
  /\ Len(call.records) = 2
  /\ call.records[1].id = call.records[2].id
  /\ call.records[1] # call.records[2]
  /\ ret = Raise("BulkWriteError")
  /\ dbCalls = <<"insert_many">>
  /\ StoredDocs # <<>>
  /\ StoredDocs[Len(StoredDocs)] = cosmosRecord(call.records[1])

\* the stored document of id
StoredDoc(id) ==
  StoredDocs[CHOOSE i \in DOMAIN StoredDocs : StoredDocs[i]["_id"] = id]

\* C20: a record upserted without a timestamp gives a document without the
\* timestamp field, one upserted with a timestamp a document carrying it;
\* a stored document without timestamp is read by get_async,
\* get_batch_async and get_nearest_matches_async without failure, as a
\* record whose timestamp is None.
C20_TimestampOptional ==
  /\ (call.name = "upsert_async" /\ ret.kind = "return") =>
       LET doc == StoredDoc(call.record.id)
       IN  IF call.record.timestamp = "None"
             THEN "timestamp" \notin DOMAIN doc
             ELSE /\ "timestamp" \in DOMAIN doc
                  /\ doc["timestamp"] = call.record.timestamp
  /\ (call.name = "get_async" /\ HasId(StoredDocs, call.key)
        /\ "timestamp" \notin DOMAIN StoredDoc(call.key)) =>
       (ret.kind = "return" /\ ret.value.timestamp = "None")
  /\ (call.name = "get_batch_async"
        /\ \E i \in DOMAIN call.keys :
             /\ HasId(StoredDocs, call.keys[i])
             /\ "timestamp" \notin DOMAIN StoredDoc(call.keys[i])) =>
       ret.kind = "return"
  /\ (call.name = "get_nearest_matches_async" /\ HasVectorIndex
        /\ \E i \in DOMAIN dbCandidates :
             "timestamp" \notin DOMAIN dbCandidates[i]["document"]) =>
       ret.kind = "return"

\* C21: whenever a nearest-match search is made through the facade, the
\* vector index embedding_cosmosSearch exists on the collection searched.
C21_SearchHasIndex ==
  call.name \in {"get_nearest_matches_async", "get_nearest_match_async"} =>
    HasIndex(Indexes(db, collection), IndexName)

\* C22: a facade operation called with a collection name other than the
\* configured container leaves the container's collection, records and
\* indexes as they are, and a get_batch_async under such a name returns
\* only records stored under that name.
C22_ScopedToName ==
  [][ (call'.name \in NamedFacadeMethods
         /\ call'.collection_name # cosmos_container_name) =>
        /\ cosmos_container_name \in DOMAIN db =>
             /\ cosmos_container_name \in DOMAIN db'
             /\ db'[cosmos_container_name] = db[cosmos_container_name]
        /\ cosmos_container_name \notin DOMAIN db =>
             cosmos_container_name \notin DOMAIN db'
        /\ (call'.name = "get_batch_async" /\ ret'.kind = "return") =>
             \A i \in DOMAIN ret'.value :
               HasId(Docs(db, call'.collection_name), ret'.value[i].id) ]_vars

\* the callers whose call is an upsert_async, made or in progress
Upserters == { p \in Callers : callers[p].pc # "idle" /\ callers[p].name = "upsert_async" }

\* every state of the race: at most one document under the id, equal to
\* the document of the record of one upsert call; a call that has returned
\* issued one write and no read
RaceState ==
  /\ CountId(StoredDocs, RaceId) <= 1
  /\ \A i \in DOMAIN StoredDocs :
       \E p \in Upserters : StoredDocs[i] = cosmosRecord(callers[p].record)
  /\ \A p \in Callers :
       callers[p].pc = "returned" =>
         /\ Len(callers[p].forwarded) = 1
         /\ callers[p].dbCalls =
              IF callers[p].name = "upsert_async"
                THEN <<"insert_many">> ELSE <<"delete_one">>

\* every write of the race: the outcome of a call is that of its one write
\* applied to the database as the writes before it left it
RaceStep ==
  \A p \in Callers :
    (callers[p].pc = "called" /\ callers'[p].pc = "returned") =>
      IF callers[p].name = "remove_async"
        THEN /\ ~HasId(Docs(db', collection), RaceId)
             /\ callers'[p].ret = ReturnNone
      ELSE IF HasId(Docs(db, collection), RaceId)
        THEN /\ db' = db
             /\ callers'[p].ret.kind = "raise"
      ELSE /\ Docs(db', collection) = <<cosmosRecord(callers[p].record)>>
           /\ callers'[p].ret = Return("str", RaceId)

\* C23: under every interleaving of upsert_async and remove_async calls of
\* several callers on one id, the collection holds at most one document of
\* the id, and that document is field for field the record of one of the
\* upsert calls; each call issues one write and no read, and the outcome
\* follows the order in which the database applies the writes.
C23_RaceOnOneId == [][RaceState /\ RaceState' /\ RaceStep]_vars

\* two upserts of different records were in progress together and both have
\* returned: one stored its record, the other was rejected
C23_Witness ==
  \E p, q \in Callers :
    /\ p # q
    /\ callers[p].pc = "returned" /\ callers[q].pc = "returned"
    /\ callers[p].name = "upsert_async" /\ callers[q].name = "upsert_async"
    /\ callers[q].overlapped
    /\ \A o \in Callers \ {p, q} : callers[o].pc = "idle"
    /\ callers[p].record.embedding # callers[q].record.embedding
    /\ callers[p].record.timestamp # callers[q].record.timestamp
    /\ callers[q].ret = Return("str", RaceId)
    /\ callers[p].ret.kind = "raise"
    /\ StoredDocs = <<cosmosRecord(callers[q].record)>>

\* the database call of each record, batch and search operation
DatabaseCall ==
  [upsert_async |-> "insert_many", upsert_batch_async |-> "insert_many",
   get_async |-> "find_one", get_batch_async |-> "find",
   remove_async |-> "delete_one", remove_batch_async |-> "delete_many",
   get_nearest_matches_async |-> "aggregate",
   get_nearest_match_async |-> "aggregate"]

\* C24: every record, batch and search operation issues exactly one
\* database call, its own, whatever the size of the batch; when the
\* database does not answer, the operation ends with the failure of that
\* one call, nothing is called again and the database is as it was.
C24_OneCallNoRetry ==
  [][ call'.name \in DOMAIN DatabaseCall =>
        /\ dbCalls' = <<DatabaseCall[call'.name]>>
        /\ ~connected =>
             /\ db' = db
             /\ ret' = IF call'.name = "upsert_batch_async" /\ call'.records = <<>>
                         THEN Raise("TypeError")
                         ELSE Raise("ConnectionFailure") ]_vars

\* a batch of the greatest length has failed on a database that holds a
\* record and does not answer, after its one insert_many
C24_Witness ==
  /\ ~connected
  /\ StoredDocs # <<>>
  /\ call.name = "upsert_batch_async"
  /\ Len(call.records) = MaxBatch
  /\ ret = Raise("ConnectionFailure")
  /\ dbCalls = <<"insert_many">>

====
